---- MODULE Spec2Model ----
(***************************************************************************)
(* Model of the Groth16 proving pipeline of gnark/sdk/cmd.go (DoSolve,     *)
(* Setup, Prove, ExportSolidify) and of its command dispatcher.            *)
(*                                                                         *)
(* A process is one run of the dispatcher (cmd = prove, setup, solve,      *)
(* setupAndProve, exportSolidity or an unknown command), or a client of    *)
(* the sdk package that calls its exported functions in any order          *)
(* (cmd = "lib", at most MaxCalls calls).  The goroutines started by Prove *)
(* are tasks that interleave with the main thread.                         *)
(*                                                                         *)
(* Keys are abstracted to the identity of the key pair they belong to (a   *)
(* number), the compiled constraint system to "ccs".  What a stage does    *)
(* with its inputs is decided by the inputs: the witness file (WitKinds),  *)
(* the contents of the key files, and the set of stages that the           *)
(* environment makes fail (faults: an I/O error, a failing backend call).  *)
(***************************************************************************)
EXTENDS Naturals, Integers, Sequences, FiniteSets, TLC

\* Bounds of the model.
MaxCalls == 2            \* calls a client of the package makes (cmd = "lib")
MaxFaults == 1           \* stages the environment makes fail in one process

\* The commands of the dispatcher; "unknown" is any other -cmd, "lib" a
\* client of the package.
Cmds == {"prove", "setup", "solve", "setupAndProve", "exportSolidity", "unknown", "lib"}
Ops == {"DoSolve", "Setup", "Prove", "ExportSolidify"}

\* The witness file at WITNESS_JSON: missing, not JSON, an unsatisfiable
\* assignment, an assignment no witness can be built from, a circuit that
\* does not compile, or a good one.
WitKinds == {"missing", "malformed", "unsat", "badwitness", "nocompile", "ok"}

\* Stages the environment can make fail whatever their inputs are.
FaultPoints == {"setup", "prove", "export", "writePk", "writeVk", "writeProof",
                "createSol", "exportSol"}
FaultSets == {F \in SUBSET FaultPoints : Cardinality(F) <= MaxFaults}

\* Key pairs: 1 and 2 exist before the process starts; the Setup of
\* invocation n generates the pair FreshPair(n).
OldPairs == {1, 2}
FreshPair(n) == 2 + n

\* Values of a key variable or a file other than the key, proof or contract
\* of a pair: nothing there (an empty key object, a missing file), a partial
\* value (a key while it is being loaded, what a read racing with a load
\* sees), the nil keys a failed groth16.Setup returns, a file created and
\* still empty, a file that a failed write left torn or that holds no key.
Empty == 0
Partial == -1
NilKey == -2
Truncated == -3
Torn == -4
IsKey(k) == k >= 1

VARIABLES
    cmd, witness, faults,              \* inputs of the process
    pkFile, vkFile, proofFile, solFile,\* files at PK_PATH, VK_PATH, PROOF_PATH, SOLIDITY_PATH
    Pk, Vk, Ccs, loadLock,             \* the package's globals
    writes,                            \* how often each of Pk, Vk, Ccs was assigned so far
    calls, op, pc,                     \* invocations so far, the running function, its position
    lastOp, lastRet,                   \* the last function that returned and what it returned
    atCall,                            \* the key files and the globals when it was called
    reafProveKeyErr, compileCcsErr,    \* Prove's error variables shared with its tasks
    fullWitness, pubWitness, pf,       \* locals of Setup and Prove
    passed,                            \* what was handed to Compile, NewWitness, Prove, Verify, the exporter
    instances,                         \* the circuit instances built in the current invocation
    tasks,                             \* the goroutines alive
    log,                               \* the stages of the current invocation, in order
    out,                               \* the failure messages the dispatcher printed
    exited,                            \* the dispatcher has returned
    p,                                 \* the Poseidon2 chip: zero, internal_linear_layer
    state,                             \* the state array handed to the chip's functions
    api,                               \* the calls made on the constraint API by the last call
    orig,                              \* the state array before the last call
    last,                              \* the chip function called last
    res,                               \* the array ConvertKoalaBear returned
    gadget,                            \* an assignment offered to the reduction gadget
    trace,                             \* the preprocessed trace of the range-check chip
    events,                            \* the event map trace_and_map builds
    rcPc, rcI,                         \* the loop trace_and_map is in, and its index
    mults,                             \* the multiplicity columns of the main trace
    lookups                            \* the lookups generate_main has handled

vars == <<cmd, witness, faults, pkFile, vkFile, proofFile, solFile, Pk, Vk, Ccs,
          loadLock, writes, calls, op, pc, lastOp, lastRet, atCall, reafProveKeyErr,
          compileCcsErr,
          fullWitness, pubWitness, pf, passed, instances, tasks, log, out, exited,
          p, state, api, orig, last, res, gadget, trace, events, rcPc, rcI, mults, lookups>>

poseidon == <<p, state, api, orig, last, res, gadget>>
rangecheck == <<trace, events, rcPc, rcI, mults, lookups>>
inputs == <<cmd, witness, faults, poseidon, rangecheck>>
files == <<pkFile, vkFile, proofFile, solFile>>
globals == <<Pk, Vk, Ccs, loadLock, writes>>
taskErrs == <<reafProveKeyErr, compileCcsErr>>
locals == <<fullWitness, pubWitness, pf, passed, instances>>
caller == <<calls, lastOp, lastRet, atCall, out, exited>>
pipeline == <<cmd, witness, faults, files, globals, taskErrs, locals, caller, op, pc, tasks, log>>


----------------------------------------------------------------------------
(* The key store (package utils) and the backend (gnark), by their contracts. *)

\* utils.ReadProvingKey / utils.ReadVerifyingKey: the load fails when the
\* path is missing or the bytes are no key; there is no partial load.
ReadKeyOk(file) == IsKey(file)

\* utils.WriteProvingKey / utils.WriteVerifyingKey / ioutil.WriteFile: the
\* write fails on an I/O error, and then the destination either keeps its
\* prior contents or is left torn.
WriteOk(point) == point \notin faults
FileAfterWrite(ok, old, new) == IF ok THEN {new} ELSE {old, Torn}

\* The values of the witness file: the two public values of the inner proof
\* and, standing for the rest of the assignment, one secret value.
WitnessInput == [VkeyHash |-> 11, CommittedValuesDigest |-> 12, Secret |-> 13]

\* A witness is a vector of field elements, its first nbPublic the public ones.
NoWitness == [vec |-> <<>>, nbPublic |-> 0]

\* frontend.NewWitness on the assignment circuit built from the input: the
\* public variables in the circuit's order (the verification-key hash, then
\* the digest of the committed values), then the secret ones.
NewWitness(input) ==
    [vec |-> <<input.VkeyHash, input.CommittedValuesDigest, input.Secret>>, nbPublic |-> 2]

\* witness.Public(): the public prefix of the vector, in the same order.
Public(w) == [vec |-> SubSeq(w.vec, 1, w.nbPublic), nbPublic |-> w.nbPublic]

\* vm_verifier.NewCircuit(inputs): the n-th circuit instance an invocation
\* builds, holding the values of the parsed input.
NoCircuit == [n |-> 0, input |-> [VkeyHash |-> 0, CommittedValuesDigest |-> 0, Secret |-> 0]]
NewCircuit(input, n) == [n |-> n, input |-> input]

NonePassed ==
    [compile |-> NoCircuit, newWitness |-> NoCircuit,
     prove |-> NoWitness, verify |-> NoWitness, export |-> NoWitness]

\* frontend.Compile on the template circuit.
CompileOk == witness # "nocompile"

\* groth16.Prove: with a loaded key, a compiled circuit and a full witness
\* the proof is one of that key's pair.  With a key that is empty, nil or
\* only partially written (a read racing with a load) the call fails or
\* yields a proof no verifying key accepts.
ProveResults(ccs, pk, fw) ==
    IF "prove" \in faults THEN {[ok |-> FALSE, pf |-> Empty]}
    ELSE IF IsKey(pk) /\ ccs = "ccs" /\ fw = NewWitness(WitnessInput) THEN {[ok |-> TRUE, pf |-> pk]}
    ELSE {[ok |-> FALSE, pf |-> Empty], [ok |-> TRUE, pf |-> Partial]}

\* groth16.Verify: accepts a proof made with the proving key of vk's pair,
\* against the public part of the witness that was proved.
VerifyOk(proof, vk, pw) ==
    IsKey(proof) /\ proof = vk /\ pw = Public(NewWitness(WitnessInput))

----------------------------------------------------------------------------
(* The caller: the dispatcher's switch, or a client of the package.        *)

\* Faulty variant: the prove command generates a key pair before it proves.
Script_SetupFirst(c) ==
    CASE c = "prove" -> <<"Setup", "Prove">>
      [] c = "setup" -> <<"Setup", "ExportSolidify">>
      [] c = "solve" -> <<"DoSolve">>
      [] c = "setupAndProve" -> <<"Setup", "ExportSolidify", "Prove">>
      [] c = "exportSolidity" -> <<"ExportSolidify">>
      [] OTHER -> <<>>

Script(c) ==
    CASE c = "prove" -> <<"Prove">>
      [] c = "setup" -> <<"Setup", "ExportSolidify">>
      [] c = "solve" -> <<"DoSolve">>
      [] c = "setupAndProve" -> <<"Setup", "ExportSolidify", "Prove">>
      [] c = "exportSolidity" -> <<"ExportSolidify">>
      [] OTHER -> <<>>

\* What the dispatcher prints when function o returned e under command c.
Printed(c, o, e) ==
    LET failed == e # "ok" IN
    CASE c = "prove" -> IF failed THEN <<"fail to prove">> ELSE <<>>
      [] c = "solve" -> IF failed THEN <<"fail to solve">> ELSE <<>>
      [] c = "exportSolidity" -> IF failed THEN <<"fail to export solidity">> ELSE <<>>
      [] c = "setup" /\ o = "Setup" -> IF failed THEN <<"fail to setup">> ELSE <<>>
      [] c = "setup" /\ o = "ExportSolidify" ->
            IF ~failed THEN <<"fail to export solidity">> ELSE <<>>
      [] c = "setupAndProve" /\ o = "Setup" -> IF ~failed THEN <<"fail to setup">> ELSE <<>>
      [] c = "setupAndProve" /\ o = "ExportSolidify" ->
            IF ~failed THEN <<"fail to export solidity">> ELSE <<>>
      [] c = "setupAndProve" /\ o = "Prove" -> IF ~failed THEN <<"fail to prove">> ELSE <<>>
      [] OTHER -> <<>>

FirstPc(o) ==
    CASE o = "Prove" -> "fork"
      [] o = "ExportSolidify" -> "readVk"
      [] OTHER -> "readInput"

CanCall(o) ==
    /\ op = "idle"
    /\ ~exited
    /\ IF cmd = "lib" THEN calls < MaxCalls
       ELSE calls < Len(Script(cmd)) /\ o = Script(cmd)[calls + 1]

\* The key files pk and vk and the globals, as a call finds them.
Snapshot(pk, vk) ==
    [pkFile |-> pk, vkFile |-> vk, solFile |-> solFile, Pk |-> Pk, Vk |-> Vk, Ccs |-> Ccs]

\* The caller invokes function o.
Call ==
    \E o \in Ops :
        /\ CanCall(o)
        /\ calls' = calls + 1
        /\ op' = o
        /\ pc' = FirstPc(o)
        /\ log' = <<>>
        /\ fullWitness' = NoWitness /\ pubWitness' = NoWitness /\ pf' = Empty
        /\ passed' = NonePassed
        /\ instances' = <<>>
        /\ atCall' = Snapshot(pkFile, vkFile)
        /\ UNCHANGED <<inputs, files, globals, taskErrs, tasks, lastOp, lastRet, out, exited>>

\* A client whose Prove failed to read the verifying key installs a key
\* pair at PK_PATH and VK_PATH and calls Prove again.
Call_AfterRepair ==
    /\ cmd = "lib" /\ CanCall("Prove")
    /\ lastOp = "Prove" /\ lastRet = "readVk"
    /\ pkFile' = 1 /\ vkFile' = 1
    /\ calls' = calls + 1
    /\ op' = "Prove"
    /\ pc' = FirstPc("Prove")
    /\ log' = <<>>
    /\ fullWitness' = NoWitness /\ pubWitness' = NoWitness /\ pf' = Empty
    /\ passed' = NonePassed
    /\ instances' = <<>>
    /\ atCall' = Snapshot(1, 1)
    /\ UNCHANGED <<inputs, proofFile, solFile, globals, taskErrs, tasks, lastOp, lastRet,
                   out, exited>>

\* The running function returns e ("ok", or the stage that failed) and the
\* dispatcher handles the result.
Return(e) ==
    /\ op' = "idle"
    /\ pc' = "done"
    /\ lastOp' = op
    /\ lastRet' = e
    /\ out' = out \o Printed(cmd, op, e)
    /\ UNCHANGED <<calls, atCall, exited>>

\* The dispatcher returns from main: the process ends, and its goroutines
\* with it.
Exit ==
    /\ op = "idle"
    /\ ~exited
    /\ cmd # "lib"
    /\ calls = Len(Script(cmd))
    /\ exited' = TRUE
    /\ tasks' = {}
    /\ out' = IF cmd = "unknown" THEN out \o <<"unknown command">> ELSE out
    /\ UNCHANGED <<inputs, files, globals, taskErrs, locals, calls, op, pc, lastOp, lastRet,
                   atCall, log>>

Ev(st, ev) == [st |-> st, ev |-> ev]

\* The count of assignments after one more assignment to each global of G.
Wrote(G) == [g \in DOMAIN writes |-> IF g \in G THEN writes[g] + 1 ELSE writes[g]]

\* A stage of the main thread ran with outcome ok: on failure the function
\* returns that stage's error, otherwise it goes on at next (or returns nil).
Stage(st, ok, next) ==
    /\ log' = Append(log, Ev(st, IF ok THEN "ok" ELSE "fail"))
    /\ IF ~ok THEN Return(st)
       ELSE IF next = "return" THEN Return("ok")
       ELSE pc' = next /\ UNCHANGED <<op, caller>>

----------------------------------------------------------------------------
(* DoSolve, also the first stages of Setup (which calls it).               *)

\* The locals assigment and circuit: the first and the second instance built.
assigment == instances[1]

\* Faulty variant: the template is the instance that carries the assignment.
circuit_Shared == instances[1]

circuit == instances[2]

InSolve == op \in {"DoSolve", "Setup"}

DoSolve_ReadFile ==
    /\ InSolve /\ pc = "readInput"
    /\ Stage("readInput", witness # "missing", "parse")
    /\ UNCHANGED <<inputs, files, globals, taskErrs, locals, tasks>>

DoSolve_Unmarshal ==
    /\ InSolve /\ pc = "parse"
    /\ Stage("parse", witness # "malformed", "solve")
    /\ UNCHANGED <<inputs, files, globals, taskErrs, locals, tasks>>

\* Faulty variant: the error of test.IsSolved is dropped.
DoSolve_IsSolved_Ignored ==
    /\ InSolve /\ pc = "solve"
    /\ instances' = <<NewCircuit(WitnessInput, 1), NewCircuit(WitnessInput, 2)>>
    /\ Stage("solve", TRUE, IF op = "DoSolve" THEN "return" ELSE "witness")
    /\ UNCHANGED <<inputs, files, globals, taskErrs, fullWitness, pubWitness, pf, passed, tasks>>

\* NewCircuit twice and test.IsSolved; DoSolve returns here, Setup goes on.
DoSolve_IsSolved ==
    /\ InSolve /\ pc = "solve"
    /\ instances' = <<NewCircuit(WitnessInput, 1), NewCircuit(WitnessInput, 2)>>
    /\ Stage("solve", witness # "unsat", IF op = "DoSolve" THEN "return" ELSE "witness")
    /\ UNCHANGED <<inputs, files, globals, taskErrs, fullWitness, pubWitness, pf, passed, tasks>>

----------------------------------------------------------------------------
(* Setup, after its call of DoSolve.                                       *)

Setup_Witness ==
    /\ op = "Setup" /\ pc = "witness"
    /\ LET ok == witness # "badwitness" IN
        /\ fullWitness' = IF ok THEN NewWitness(assigment.input) ELSE fullWitness
        /\ pubWitness' = IF ok THEN Public(NewWitness(assigment.input)) ELSE pubWitness
        /\ passed' = [passed EXCEPT !.newWitness = assigment]
        /\ Stage("witness", ok, "compile")
    /\ UNCHANGED <<inputs, files, globals, taskErrs, pf, instances, tasks>>

Setup_Compile ==
    /\ op = "Setup" /\ pc = "compile"
    /\ Ccs' = IF CompileOk THEN "ccs" ELSE Ccs
    /\ writes' = IF CompileOk THEN Wrote({"Ccs"}) ELSE writes
    /\ passed' = [passed EXCEPT !.compile = circuit]
    /\ Stage("compile", CompileOk, "setup")
    /\ UNCHANGED <<inputs, files, Pk, Vk, loadLock, taskErrs, fullWitness, pubWitness, pf,
                   instances, tasks>>

\* Pk, Vk, err = groth16.Setup(Ccs): the globals take what the call returns,
\* nil keys when it fails.
Setup_Groth16Setup ==
    /\ op = "Setup" /\ pc = "setup"
    /\ LET ok == "setup" \notin faults IN
        /\ Pk' = IF ok THEN FreshPair(calls) ELSE NilKey
        /\ Vk' = IF ok THEN FreshPair(calls) ELSE NilKey
        /\ writes' = Wrote({"Pk", "Vk"})
        /\ Stage("setup", ok, "prove")
    /\ UNCHANGED <<inputs, files, Ccs, loadLock, taskErrs, locals, tasks>>

Setup_Groth16Prove ==
    /\ op = "Setup" /\ pc = "prove"
    /\ \E r \in ProveResults(Ccs, Pk, fullWitness) :
        /\ pf' = r.pf
        /\ passed' = [passed EXCEPT !.prove = fullWitness]
        /\ Stage("prove", r.ok, "verify")
    /\ UNCHANGED <<inputs, files, globals, taskErrs, fullWitness, pubWitness, instances, tasks>>

\* Faulty variant: the result of the self-check Verify is dropped.
Setup_Verify_Ignored ==
    /\ op = "Setup" /\ pc = "verify"
    /\ passed' = [passed EXCEPT !.verify = pubWitness]
    /\ Stage("verify", TRUE, "writePk")
    /\ UNCHANGED <<inputs, files, globals, taskErrs, fullWitness, pubWitness, pf, instances, tasks>>

Setup_Verify ==
    /\ op = "Setup" /\ pc = "verify"
    /\ passed' = [passed EXCEPT !.verify = pubWitness]
    /\ Stage("verify", VerifyOk(pf, Vk, pubWitness), "writePk")
    /\ UNCHANGED <<inputs, files, globals, taskErrs, fullWitness, pubWitness, pf, instances, tasks>>

\* Faulty variant: the error of utils.WriteProvingKey is dropped.
Setup_WriteProvingKey_Unchecked ==
    /\ op = "Setup" /\ pc = "writePk"
    /\ \E f \in FileAfterWrite(WriteOk("writePk"), pkFile, Pk) : pkFile' = f
    /\ Stage("writePk", TRUE, "writeVk")
    /\ UNCHANGED <<inputs, vkFile, proofFile, solFile, globals, taskErrs, locals, tasks>>

Setup_WriteProvingKey ==
    /\ op = "Setup" /\ pc = "writePk"
    /\ \E f \in FileAfterWrite(WriteOk("writePk"), pkFile, Pk) : pkFile' = f
    /\ Stage("writePk", WriteOk("writePk"), "writeVk")
    /\ UNCHANGED <<inputs, vkFile, proofFile, solFile, globals, taskErrs, locals, tasks>>

Setup_WriteVerifyingKey ==
    /\ op = "Setup" /\ pc = "writeVk"
    /\ \E f \in FileAfterWrite(WriteOk("writeVk"), vkFile, Vk) : vkFile' = f
    /\ Stage("writeVk", WriteOk("writeVk"), "return")
    /\ UNCHANGED <<inputs, pkFile, proofFile, solFile, globals, taskErrs, locals, tasks>>

----------------------------------------------------------------------------
(* Prove: the main thread.                                                 *)

PkTask(n) == [kind |-> "pk", inv |-> n, phase |-> "start", key |-> Empty]
CcsTask(n) == [kind |-> "ccs", inv |-> n, phase |-> "start", key |-> Empty]

\* loadLock.Add(2), the declaration of the two error variables and the go
\* statement of the task that loads the proving key.
Prove_Fork ==
    /\ op = "Prove" /\ pc = "fork"
    /\ loadLock' = loadLock + 2
    /\ reafProveKeyErr' = FALSE
    /\ compileCcsErr' = FALSE
    /\ tasks' = tasks \cup {PkTask(calls)}
    /\ log' = Append(log, Ev("readPk", "start"))
    /\ pc' = "readVk"
    /\ UNCHANGED <<inputs, files, Pk, Vk, Ccs, writes, locals, op, caller>>

\* Faulty variant: a failed read of the verifying key is tried a second time.
Prove_ReadVerifyingKey_Retry ==
    /\ op = "Prove" /\ pc = "readVk"
    /\ Vk' = IF ReadKeyOk(vkFile) THEN vkFile ELSE Vk
    /\ writes' = IF ReadKeyOk(vkFile) THEN Wrote({"Vk"}) ELSE writes
    /\ IF ~ReadKeyOk(vkFile) /\ ~\E i \in DOMAIN log : log[i] = Ev("readVk", "fail")
       THEN log' = Append(log, Ev("readVk", "fail")) /\ UNCHANGED <<op, pc, caller>>
       ELSE Stage("readVk", ReadKeyOk(vkFile), "readInput")
    /\ UNCHANGED <<inputs, files, Pk, Ccs, loadLock, taskErrs, locals, tasks>>

Prove_ReadVerifyingKey ==
    /\ op = "Prove" /\ pc = "readVk"
    /\ Vk' = IF ReadKeyOk(vkFile) THEN vkFile ELSE Vk
    /\ writes' = IF ReadKeyOk(vkFile) THEN Wrote({"Vk"}) ELSE writes
    /\ Stage("readVk", ReadKeyOk(vkFile), "readInput")
    /\ UNCHANGED <<inputs, files, Pk, Ccs, loadLock, taskErrs, locals, tasks>>

Prove_ReadFile ==
    /\ op = "Prove" /\ pc = "readInput"
    /\ Stage("readInput", witness # "missing", "parse")
    /\ UNCHANGED <<inputs, files, globals, taskErrs, locals, tasks>>

Prove_Unmarshal ==
    /\ op = "Prove" /\ pc = "parse"
    /\ Stage("parse", witness # "malformed", "solve")
    /\ UNCHANGED <<inputs, files, globals, taskErrs, locals, tasks>>

\* Faulty variant: the error of test.IsSolved is dropped.
Prove_IsSolved_Ignored ==
    /\ op = "Prove" /\ pc = "solve"
    /\ instances' = <<NewCircuit(WitnessInput, 1), NewCircuit(WitnessInput, 2)>>
    /\ Stage("solve", TRUE, "witness")
    /\ UNCHANGED <<inputs, files, globals, taskErrs, fullWitness, pubWitness, pf, passed, tasks>>

Prove_IsSolved ==
    /\ op = "Prove" /\ pc = "solve"
    /\ instances' = <<NewCircuit(WitnessInput, 1), NewCircuit(WitnessInput, 2)>>
    /\ Stage("solve", witness # "unsat", "witness")
    /\ UNCHANGED <<inputs, files, globals, taskErrs, fullWitness, pubWitness, pf, passed, tasks>>

Prove_Witness ==
    /\ op = "Prove" /\ pc = "witness"
    /\ LET ok == witness # "badwitness" IN
        /\ fullWitness' = IF ok THEN NewWitness(assigment.input) ELSE fullWitness
        /\ pubWitness' = IF ok THEN Public(NewWitness(assigment.input)) ELSE pubWitness
        /\ passed' = [passed EXCEPT !.newWitness = assigment]
        /\ Stage("witness", ok, "forkCompile")
    /\ UNCHANGED <<inputs, files, globals, taskErrs, pf, instances, tasks>>

\* The go statement of the task that compiles the circuit.
Prove_ForkCompile ==
    /\ op = "Prove" /\ pc = "forkCompile"
    /\ tasks' = tasks \cup {CcsTask(calls)}
    /\ log' = Append(log, Ev("compile", "start"))
    /\ pc' = "wait"
    /\ UNCHANGED <<inputs, files, globals, taskErrs, locals, op, caller>>

\* Faulty variant: Prove goes on without waiting for its tasks.
Prove_Wait_NoJoin ==
    /\ op = "Prove" /\ pc = "wait"
    /\ pc' = "check"
    /\ UNCHANGED <<inputs, files, globals, taskErrs, locals, tasks, log, op, caller>>

\* Faulty variant: Prove waits for one of its two tasks only.
Prove_Wait_ForOne ==
    /\ op = "Prove" /\ pc = "wait"
    /\ loadLock <= 1
    /\ pc' = "check"
    /\ UNCHANGED <<inputs, files, globals, taskErrs, locals, tasks, log, op, caller>>

\* loadLock.Wait() returns when the counter is zero.
Prove_Wait ==
    /\ op = "Prove" /\ pc = "wait"
    /\ loadLock = 0
    /\ pc' = "check"
    /\ UNCHANGED <<inputs, files, globals, taskErrs, locals, tasks, log, op, caller>>

\* Faulty variant: the two checks after the join in the other order.
Prove_CheckErrs_PkFirst ==
    /\ op = "Prove" /\ pc = "check"
    /\ IF reafProveKeyErr THEN Return("readPk")
       ELSE IF compileCcsErr THEN Return("compile")
       ELSE pc' = "prove" /\ UNCHANGED <<op, caller>>
    /\ UNCHANGED <<inputs, files, globals, taskErrs, locals, tasks, log>>

\* Faulty variant: the error of the proving-key load is not looked at.
Prove_CheckErrs_NoPkCheck ==
    /\ op = "Prove" /\ pc = "check"
    /\ IF compileCcsErr THEN Return("compile")
       ELSE pc' = "prove" /\ UNCHANGED <<op, caller>>
    /\ UNCHANGED <<inputs, files, globals, taskErrs, locals, tasks, log>>

\* Faulty variant: of two failed tasks the one that failed first is reported.
Prove_CheckErrs_FirstFailureWins ==
    /\ op = "Prove" /\ pc = "check"
    /\ IF compileCcsErr /\ reafProveKeyErr
       THEN LET first == CHOOSE i \in DOMAIN log :
                            /\ log[i].ev = "fail"
                            /\ \A j \in DOMAIN log : log[j].ev = "fail" => i <= j
            IN Return(log[first].st)
       ELSE IF compileCcsErr THEN Return("compile")
       ELSE IF reafProveKeyErr THEN Return("readPk")
       ELSE pc' = "prove" /\ UNCHANGED <<op, caller>>
    /\ UNCHANGED <<inputs, files, globals, taskErrs, locals, tasks, log>>

\* The two checks after the join: the compile error first, then the load error.
Prove_CheckErrs ==
    /\ op = "Prove" /\ pc = "check"
    /\ IF compileCcsErr THEN Return("compile")
       ELSE IF reafProveKeyErr THEN Return("readPk")
       ELSE pc' = "prove" /\ UNCHANGED <<op, caller>>
    /\ UNCHANGED <<inputs, files, globals, taskErrs, locals, tasks, log>>

Prove_Groth16Prove ==
    /\ op = "Prove" /\ pc = "prove"
    /\ \E r \in ProveResults(Ccs, Pk, fullWitness) :
        /\ pf' = r.pf
        /\ passed' = [passed EXCEPT !.prove = fullWitness]
        /\ Stage("prove", r.ok, "verify")
    /\ UNCHANGED <<inputs, files, globals, taskErrs, fullWitness, pubWitness, instances, tasks>>

\* Faulty variant: the result of groth16.Verify is dropped.
Prove_Verify_Ignored ==
    /\ op = "Prove" /\ pc = "verify"
    /\ passed' = [passed EXCEPT !.verify = pubWitness]
    /\ Stage("verify", TRUE, "export")
    /\ UNCHANGED <<inputs, files, globals, taskErrs, fullWitness, pubWitness, pf, instances, tasks>>

Prove_Verify ==
    /\ op = "Prove" /\ pc = "verify"
    /\ passed' = [passed EXCEPT !.verify = pubWitness]
    /\ Stage("verify", VerifyOk(pf, Vk, pubWitness), "export")
    /\ UNCHANGED <<inputs, files, globals, taskErrs, fullWitness, pubWitness, pf, instances, tasks>>

\* Faulty variant: the exporter is handed the public values in the other order.
Prove_GetAggOnChainProof_Swapped ==
    /\ op = "Prove" /\ pc = "export"
    /\ passed' = [passed EXCEPT !.export =
                    [pubWitness EXCEPT !.vec = <<pubWitness.vec[2], pubWitness.vec[1]>>]]
    /\ Stage("export", "export" \notin faults, "writeProof")
    /\ UNCHANGED <<inputs, files, globals, taskErrs, fullWitness, pubWitness, pf, instances, tasks>>

\* utils.GetAggOnChainProof(pf, pubWitness)
Prove_GetAggOnChainProof ==
    /\ op = "Prove" /\ pc = "export"
    /\ passed' = [passed EXCEPT !.export = pubWitness]
    /\ Stage("export", "export" \notin faults, "writeProof")
    /\ UNCHANGED <<inputs, files, globals, taskErrs, fullWitness, pubWitness, pf, instances, tasks>>

\* ioutil.WriteFile(PROOF_PATH, res), then return nil.
Prove_WriteFile ==
    /\ op = "Prove" /\ pc = "writeProof"
    /\ \E f \in FileAfterWrite(WriteOk("writeProof"), proofFile, pf) : proofFile' = f
    /\ Stage("writeProof", WriteOk("writeProof"), "return")
    /\ UNCHANGED <<inputs, pkFile, vkFile, solFile, globals, taskErrs, locals, tasks>>

----------------------------------------------------------------------------
(* Prove: its two goroutines.  A task of an invocation that has returned   *)
(* writes that invocation's error variable, not the current one's.         *)

Current(t) == t.inv = calls

\* utils.ReadProvingKey(PK_PATH, Pk) opens the file: a missing or bad file
\* ends the task with an error (defer loadLock.Done()), a good one starts
\* being read into Pk.
Task_ReadProvingKey_Begin ==
    \E t \in tasks :
        /\ t.kind = "pk" /\ t.phase = "start"
        /\ IF ReadKeyOk(pkFile)
           THEN /\ tasks' = (tasks \ {t}) \cup {[t EXCEPT !.phase = "writing", !.key = pkFile]}
                /\ Pk' = Partial
                /\ writes' = Wrote({"Pk"})
                /\ UNCHANGED <<loadLock, reafProveKeyErr, log>>
           ELSE /\ tasks' = tasks \ {t}
                /\ loadLock' = loadLock - 1
                /\ reafProveKeyErr' = IF Current(t) THEN TRUE ELSE reafProveKeyErr
                /\ log' = IF Current(t) THEN Append(log, Ev("readPk", "fail")) ELSE log
                /\ UNCHANGED <<Pk, writes>>
        /\ UNCHANGED <<inputs, files, Vk, Ccs, compileCcsErr, locals, op, pc, caller>>

\* The load completes: Pk holds the key of the file, then loadLock.Done().
Task_ReadProvingKey_End ==
    \E t \in tasks :
        /\ t.kind = "pk" /\ t.phase = "writing"
        /\ Pk' = t.key
        /\ tasks' = tasks \ {t}
        /\ loadLock' = loadLock - 1
        /\ log' = IF Current(t) THEN Append(log, Ev("readPk", "ok")) ELSE log
        /\ UNCHANGED <<inputs, files, Vk, Ccs, writes, taskErrs, locals, op, pc, caller>>

\* frontend.Compile in the second goroutine, then loadLock.Done().
Task_Compile ==
    \E t \in tasks :
        /\ t.kind = "ccs"
        /\ Ccs' = IF CompileOk THEN "ccs" ELSE Ccs
        /\ writes' = IF CompileOk THEN Wrote({"Ccs"}) ELSE writes
        /\ compileCcsErr' = IF CompileOk \/ ~Current(t) THEN compileCcsErr ELSE TRUE
        /\ tasks' = tasks \ {t}
        /\ loadLock' = loadLock - 1
        /\ log' = IF Current(t)
                  THEN Append(log, Ev("compile", IF CompileOk THEN "ok" ELSE "fail"))
                  ELSE log
        /\ passed' = IF Current(t) THEN [passed EXCEPT !.compile = circuit] ELSE passed
        /\ UNCHANGED <<inputs, files, Pk, Vk, reafProveKeyErr, fullWitness, pubWitness, pf,
                       instances, op, pc, caller>>

----------------------------------------------------------------------------
(* ExportSolidify                                                          *)

\* Faulty variant: the contract file is created before the key is loaded.
Export_ReadVerifyingKey_CreatesFirst ==
    /\ op = "ExportSolidify" /\ pc = "readVk"
    /\ solFile' = Truncated
    /\ Vk' = IF ReadKeyOk(vkFile) THEN vkFile ELSE Vk
    /\ writes' = IF ReadKeyOk(vkFile) THEN Wrote({"Vk"}) ELSE writes
    /\ Stage("readVk", ReadKeyOk(vkFile), "createSol")
    /\ UNCHANGED <<inputs, pkFile, vkFile, proofFile, Pk, Ccs, loadLock, taskErrs, locals, tasks>>

Export_ReadVerifyingKey ==
    /\ op = "ExportSolidify" /\ pc = "readVk"
    /\ Vk' = IF ReadKeyOk(vkFile) THEN vkFile ELSE Vk
    /\ writes' = IF ReadKeyOk(vkFile) THEN Wrote({"Vk"}) ELSE writes
    /\ Stage("readVk", ReadKeyOk(vkFile), "createSol")
    /\ UNCHANGED <<inputs, files, Pk, Ccs, loadLock, taskErrs, locals, tasks>>

\* os.Create(SOLIDITY_PATH) creates the file or truncates it.
Export_Create ==
    /\ op = "ExportSolidify" /\ pc = "createSol"
    /\ LET ok == "createSol" \notin faults IN
        /\ solFile' = IF ok THEN Truncated ELSE solFile
        /\ Stage("createSol", ok, "exportSol")
    /\ UNCHANGED <<inputs, pkFile, vkFile, proofFile, globals, taskErrs, locals, tasks>>

\* Faulty variant: the exporter consumes the key and leaves Vk empty.
Export_ExportSolidity_ConsumesKey ==
    /\ op = "ExportSolidify" /\ pc = "exportSol"
    /\ LET ok == "exportSol" \notin faults IN
        /\ \E f \in FileAfterWrite(ok, solFile, Vk) : solFile' = f
        /\ Stage("exportSol", ok, "return")
    /\ Vk' = Empty
    /\ UNCHANGED <<inputs, pkFile, vkFile, proofFile, Pk, Ccs, loadLock, writes,
                   taskErrs, locals, tasks>>

\* Vk.ExportSolidity(f)
Export_ExportSolidity ==
    /\ op = "ExportSolidify" /\ pc = "exportSol"
    /\ LET ok == "exportSol" \notin faults IN
        /\ \E f \in FileAfterWrite(ok, solFile, Vk) : solFile' = f
        /\ Stage("exportSol", ok, "return")
    /\ UNCHANGED <<inputs, pkFile, vkFile, proofFile, globals, taskErrs, locals, tasks>>

----------------------------------------------------------------------------

----------------------------------------------------------------------------
(* Package poseidon2: the two linear layers of the chip.  Arithmetic is in *)
(* the field of FieldP elements; arrays are indexed from 0 as in the code. *)

FieldP == 3
width == 3

Field == 0 .. (FieldP - 1)
Idx == 0 .. (width - 1)
States == [Idx -> Field]
ZeroState == [i \in Idx |-> 0]

\* The chips: zero is the field's zero, internal_linear_layer a vector of
\* width coefficients.
Chips ==
    {[zero |-> 0, internal_linear_layer |-> [i \in Idx |-> (c + i * d) % FieldP]] :
        c \in Field, d \in Field}

\* p.api.Add(x, y) and p.api.Mul(x, y) after the calls a: the call is
\* recorded and the value is the field's sum or product.
Add(a, x, y) == [api |-> Append(a, "Add"), v |-> (x + y) % FieldP]
Mul(a, x, y) == [api |-> Append(a, "Mul"), v |-> (x * y) % FieldP]

\* for i < width { sum = p.api.Add(sum, state[i]) }
RECURSIVE SumLoop(_, _, _, _)
SumLoop(i, sum, s, a) ==
    IF i < width
    THEN LET r == Add(a, sum, s[i]) IN SumLoop(i + 1, r.v, s, r.api)
    ELSE [api |-> a, v |-> sum]

\* for i < width { state[i] = p.api.Mul(state[i], p.internal_linear_layer[i])
\*                 state[i] = p.api.Add(state[i], sum) }
RECURSIVE UpdateLoop(_, _, _, _, _)
UpdateLoop(i, s, sum, c, a) ==
    IF i < width
    THEN LET m == Mul(a, s[i], c.internal_linear_layer[i])
             r == Add(m.api, m.v, sum)
         IN UpdateLoop(i + 1, [s EXCEPT ![i] = r.v], sum, c, r.api)
    ELSE [api |-> a, state |-> s]

\* Faulty variant: one loop, the sum taken while the state is being updated.
RECURSIVE RunningLoop(_, _, _, _, _)
RunningLoop(i, s, sum, c, a) ==
    IF i < width
    THEN LET t == Add(a, sum, s[i])
             m == Mul(t.api, s[i], c.internal_linear_layer[i])
             r == Add(m.api, m.v, t.v)
         IN RunningLoop(i + 1, [s EXCEPT ![i] = r.v], t.v, c, r.api)
    ELSE [api |-> a, state |-> s]

diffusionPermuteMut_RunningSum(c, s) == RunningLoop(0, s, c.zero, c, <<>>)

\* Faulty variant: the running sum starts at one, not at the chip's zero.
diffusionPermuteMut_SumFromOne(c, s) ==
    LET sum == SumLoop(0, 1, s, <<>>) IN UpdateLoop(0, s, sum.v, c, sum.api)

\* Faulty variant: the running sum starts at state[0], saving one addition.
diffusionPermuteMut_SeededSum(c, s) ==
    LET sum == SumLoop(1, s[0], s, <<>>) IN UpdateLoop(0, s, sum.v, c, sum.api)

\* diffusionPermuteMut of chip c on the array s: the array after the call
\* and the calls made on the API.
diffusionPermuteMut(c, s) ==
    LET sum == SumLoop(0, c.zero, s, <<>>) IN UpdateLoop(0, s, sum.v, c, sum.api)

\* Faulty variant: the sum is taken again from the array after each update.
matrixPermuteMut_SumRetaken(c, s) ==
    LET t0 == Add(<<>>, s[0], s[1])
        u0 == Add(t0.api, t0.v, s[2])
        r0 == Add(u0.api, s[0], u0.v)
        t1 == Add(r0.api, r0.v, s[1])
        u1 == Add(t1.api, t1.v, s[2])
        r1 == Add(u1.api, s[1], u1.v)
        r2 == Add(r1.api, s[2], u1.v)
    IN [api |-> r2.api, state |-> [s EXCEPT ![0] = r0.v, ![1] = r1.v, ![2] = r2.v]]

\* Faulty variant: the elements past the third are cleared.
matrixPermuteMut_ClearsRest(c, s) ==
    LET t == Add(<<>>, s[0], s[1])
        sum == Add(t.api, t.v, s[2])
        r0 == Add(sum.api, s[0], sum.v)
        r1 == Add(r0.api, s[1], sum.v)
        r2 == Add(r1.api, s[2], sum.v)
    IN [api |-> r2.api,
        state |-> [i \in DOMAIN s |-> CASE i = 0 -> r0.v [] i = 1 -> r1.v [] i = 2 -> r2.v
                                         [] OTHER -> 0]]

\* matrixPermuteMut of chip c on the array s.
matrixPermuteMut(c, s) ==
    LET t == Add(<<>>, s[0], s[1])
        sum == Add(t.api, t.v, s[2])
        r0 == Add(sum.api, s[0], sum.v)
        r1 == Add(r0.api, s[1], sum.v)
        r2 == Add(r1.api, s[2], sum.v)
    IN [api |-> r2.api, state |-> [s EXCEPT ![0] = r0.v, ![1] = r1.v, ![2] = r2.v]]

\* A circuit under construction calls one of the two functions on its array.
Call_diffusionPermuteMut ==
    /\ last = "none"
    /\ LET r == diffusionPermuteMut(p, state) IN state' = r.state /\ api' = r.api
    /\ orig' = state
    /\ last' = "diffusion"
    /\ UNCHANGED <<p, res, gadget, rangecheck, pipeline>>

Call_matrixPermuteMut ==
    /\ last = "none"
    /\ LET r == matrixPermuteMut(p, state) IN state' = r.state /\ api' = r.api
    /\ orig' = state
    /\ last' = "matrix"
    /\ UNCHANGED <<p, res, gadget, rangecheck, pipeline>>

----------------------------------------------------------------------------
(* Package poseidon2: ConvertKoalaBear, and the reduction gadget of        *)
(* package koalabear it applies (chip.ReduceSlow), by its contract.        *)

KoalaP == 3
OuterP == 11
StateLen == 16

Outer == 0 .. (OuterP - 1)

\* The quotient the gadget admits, and with it the largest value it reduces:
\* QMax * KoalaP + (KoalaP - 1) does not wrap around in the outer field.
QMax == (OuterP - KoalaP) \div KoalaP
MaxIn == QMax * KoalaP + KoalaP - 1

\* Faulty variant: the quotient is not range-checked.
ReduceSlowAccepts_FreeQuotient(x, q, y) ==
    /\ (q * KoalaP + y) % OuterP = x
    /\ y \in 0 .. (KoalaP - 1)

\* The constraints of the slow reduction on input x, with the quotient q and
\* the output y supplied by the prover: x = q * KoalaP + y in the outer
\* field, a range check of y and a range check of q.
ReduceSlowAccepts(x, q, y) ==
    /\ (q * KoalaP + y) % OuterP = x
    /\ y \in 0 .. (KoalaP - 1)
    /\ q \in 0 .. QMax

\* chip.ReduceSlow(x): the variable the constraints determine.
ReduceSlow(x) ==
    [Value |-> CHOOSE y \in Outer : \E q \in Outer : ReduceSlowAccepts(x.Value, q, y)]

\* Faulty variant: the elements are passed through as they are.
RECURSIVE ConvertLoop_PassThrough(_, _, _)
ConvertLoop_PassThrough(i, s, r) ==
    IF i < StateLen
    THEN ConvertLoop_PassThrough(i + 1, s, [r EXCEPT ![i] = s[i].Value])
    ELSE r

\* for i < 16 { res[i] = chip.ReduceSlow(state[i]).Value }
RECURSIVE ConvertLoop(_, _, _)
ConvertLoop(i, s, r) ==
    IF i < StateLen
    THEN ConvertLoop(i + 1, s, [r EXCEPT ![i] = ReduceSlow(s[i]).Value])
    ELSE r

\* ConvertKoalaBear on the array s: var res [16]frontend.Variable, the loop,
\* return res.
ConvertKoalaBear(s) == ConvertLoop(0, s, [i \in 0 .. (StateLen - 1) |-> 0])

\* The arrays of koalabear variables: values within the gadget's input
\* bound, in arithmetic progression along the array.
KoalaStates ==
    {[i \in 0 .. (StateLen - 1) |-> [Value |-> (a + i * b) % (MaxIn + 1)]] :
        a \in 0 .. MaxIn, b \in 0 .. MaxIn}

NoGadget == [x |-> 0, q |-> 0, y |-> 0, ok |-> FALSE]

Call_ConvertKoalaBear ==
    /\ last = "none"
    /\ res' = ConvertKoalaBear(state)
    /\ orig' = state
    /\ last' = "convert"
    /\ UNCHANGED <<p, state, api, gadget, rangecheck, pipeline>>

\* A prover offers the gadget, on input x, a quotient and an output of its
\* choice; the constraints hold or they do not.
Prover_ReduceSlow ==
    /\ last = "none"
    /\ \E x \in Outer, q \in Outer, y \in Outer :
          gadget' = [x |-> x, q |-> q, y |-> y, ok |-> ReduceSlowAccepts(x, q, y)]
    /\ last' = "gadget"
    /\ UNCHANGED <<p, state, api, orig, res, rangecheck, pipeline>>

----------------------------------------------------------------------------
(* The range-check chip: trace_and_map builds the preprocessed trace and   *)
(* the event map, generate_main counts lookups through the map.  The value *)
(* ranges are scaled down: U8Max stands for u8::MAX, U16Start for 1 << 12, *)
(* U16Max for u16::MAX.                                                    *)

U8Max == 3
U16Start == 8
U16Max == 15
MaxLookups == 2

\* enum RangeCheckOpcode
U8 == 0
U12 == 1
U16 == 2
NUM_RANGE_CHECK_OPCODES == 3

NUM_ROWS == U16Max + 1
Rows == 0 .. (NUM_ROWS - 1)
Opcodes == {U8, U12, U16}

\* RangeCheckEvent::new(opcode, value)
RangeCheckEvent(opcode, value) == [opcode |-> opcode, value |-> value]
AllEvents == {RangeCheckEvent(o, v) : o \in Opcodes, v \in 0 .. U16Max}

\* The trace initialized with all zeros, and the multiplicity columns.
ZeroTrace == [r \in Rows |-> [opcode |-> 0, value |-> 0]]
ZeroMults == [r \in Rows |-> [c \in 0 .. (NUM_RANGE_CHECK_OPCODES - 1) |-> 0]]

\* events.insert(event, (row, index)): a HashMap keeps one entry per key.
Insert(m, event, row, index) ==
    {e \in m : e.event # event} \cup {[event |-> event, row |-> row, index |-> index]}

\* One iteration of a for_each of trace_and_map at index rcI: the row rcI of
\* the trace is written and the event entered under column index; after the
\* iteration at end the function goes on at next, its index at nextI.
Iteration(opcode, index, end, next, nextI) ==
    /\ trace' = [trace EXCEPT ![rcI] = [opcode |-> opcode, value |-> rcI]]
    /\ events' = Insert(events, RangeCheckEvent(opcode, rcI), rcI, index)
    /\ IF rcI = end
       THEN rcPc' = next /\ rcI' = nextI
       ELSE rcPc' = rcPc /\ rcI' = rcI + 1
    /\ UNCHANGED <<mults, lookups, poseidon, pipeline>>

\* (0..=u8::MAX).for_each
TraceAndMap_U8 ==
    /\ rcPc = "u8"
    /\ Iteration(U8, U8, U8Max, "u12", 0)

\* u12_start = u8::MAX + 1; (0..=u12_start).for_each
TraceAndMap_U12 ==
    /\ rcPc = "u12"
    /\ Iteration(U12, U12, U8Max + 1, "u16", U16Start)

\* (u16_start..=u16::MAX).for_each, entering the events under U12 as usize.
TraceAndMap_U16 ==
    /\ rcPc = "u16"
    /\ Iteration(U16, U12, U16Max, "done", 0)

\* generate_main on one lookup of multiplicity one: event_map[lookup] panics
\* when the event is not in the map.
GenerateMain_Lookup ==
    /\ rcPc = "done"
    /\ lookups < MaxLookups
    /\ \E lookup \in AllEvents :
        IF \E e \in events : e.event = lookup
        THEN LET e == CHOOSE x \in events : x.event = lookup IN
                /\ mults' = [mults EXCEPT ![e.row][e.index] = @ + 1]
                /\ lookups' = lookups + 1
                /\ UNCHANGED rcPc
        ELSE rcPc' = "panic" /\ UNCHANGED <<mults, lookups>>
    /\ UNCHANGED <<trace, events, rcI, poseidon, pipeline>>

\* No range-check chip is at work.
NoRangeCheck ==
    /\ trace = ZeroTrace /\ events = {}
    /\ rcPc = "off" /\ rcI = 0
    /\ mults = ZeroMults /\ lookups = 0

\* No circuit is under construction.
NoChip ==
    /\ p = [zero |-> 0, internal_linear_layer |-> ZeroState]
    /\ state = ZeroState /\ orig = ZeroState
    /\ api = <<>>
    /\ last = "none"
    /\ res = <<>>
    /\ gadget = NoGadget

----------------------------------------------------------------------------
(* The process.                                                            *)

InitPipeline ==
    /\ cmd \in Cmds
    /\ witness \in WitKinds
    /\ faults \in FaultSets
    /\ pkFile \in {Empty, Torn} \cup {1}
    /\ vkFile \in {Empty, Torn} \cup OldPairs
    /\ proofFile = Empty
    /\ solFile \in IF cmd = "lib" THEN {Empty} ELSE {Empty, 1}
    /\ Pk = Empty /\ Vk = Empty /\ Ccs = "empty"
    /\ loadLock = 0
    /\ writes = [g \in {"Pk", "Vk", "Ccs"} |-> 0]
    /\ calls = 0 /\ op = "idle" /\ pc = "done"
    /\ lastOp = "none" /\ lastRet = "none"
    /\ atCall = Snapshot(pkFile, vkFile)
    /\ reafProveKeyErr = FALSE /\ compileCcsErr = FALSE
    /\ fullWitness = NoWitness /\ pubWitness = NoWitness /\ pf = Empty
    /\ passed = NonePassed
    /\ instances = <<>>
    /\ tasks = {}
    /\ log = <<>>
    /\ out = <<>>
    /\ exited = FALSE

Init == InitPipeline /\ NoChip /\ NoRangeCheck

Next ==
    \/ Call
    \/ Call_AfterRepair
    \/ Exit
    \/ DoSolve_ReadFile
    \/ DoSolve_Unmarshal
    \/ DoSolve_IsSolved
    \/ Setup_Witness
    \/ Setup_Compile
    \/ Setup_Groth16Setup
    \/ Setup_Groth16Prove
    \/ Setup_Verify
    \/ Setup_WriteProvingKey
    \/ Setup_WriteVerifyingKey
    \/ Prove_Fork
    \/ Prove_ReadVerifyingKey
    \/ Prove_ReadFile
    \/ Prove_Unmarshal
    \/ Prove_IsSolved
    \/ Prove_Witness
    \/ Prove_ForkCompile
    \/ Prove_Wait
    \/ Prove_CheckErrs
    \/ Prove_Groth16Prove
    \/ Prove_Verify
    \/ Prove_GetAggOnChainProof
    \/ Prove_WriteFile
    \/ Task_ReadProvingKey_Begin
    \/ Task_ReadProvingKey_End
    \/ Task_Compile
    \/ Export_ReadVerifyingKey
    \/ Export_Create
    \/ Export_ExportSolidity

Spec == Init /\ [][Next]_vars

\* The steps of the thread that called into the package, and the steps of
\* the goroutines Prove started.
MainSteps ==
    \/ DoSolve_ReadFile \/ DoSolve_Unmarshal \/ DoSolve_IsSolved
    \/ Setup_Witness \/ Setup_Compile \/ Setup_Groth16Setup \/ Setup_Groth16Prove
    \/ Setup_Verify \/ Setup_WriteProvingKey \/ Setup_WriteVerifyingKey
    \/ Prove_Fork \/ Prove_ReadVerifyingKey \/ Prove_ReadFile \/ Prove_Unmarshal
    \/ Prove_IsSolved \/ Prove_Witness \/ Prove_ForkCompile \/ Prove_Wait
    \/ Prove_CheckErrs \/ Prove_Groth16Prove \/ Prove_Verify
    \/ Prove_GetAggOnChainProof \/ Prove_WriteFile
    \/ Export_ReadVerifyingKey \/ Export_Create \/ Export_ExportSolidity

TaskSteps == Task_ReadProvingKey_Begin \/ Task_ReadProvingKey_End \/ Task_Compile

\* The same process under a fair scheduler and with stages that terminate:
\* a thread that can take a step eventually takes one.
SpecLive == Spec /\ WF_vars(MainSteps) /\ WF_vars(TaskSteps)

\* The chip alone: a chip and an array over the field, one call on them.
InitPoseidon ==
    /\ InitPipeline
    /\ cmd = "unknown" /\ witness = "ok" /\ faults = {}
    /\ pkFile = Empty /\ vkFile = Empty /\ solFile = Empty
    /\ p \in Chips
    /\ state \in States
    /\ orig = state
    /\ api = <<>>
    /\ last = "none"
    /\ res = <<>>
    /\ gadget = NoGadget
    /\ NoRangeCheck

NextPoseidon ==
    \/ Call_diffusionPermuteMut
    \/ Call_matrixPermuteMut

SpecPoseidon == InitPoseidon /\ [][NextPoseidon]_vars

\* The conversion alone: an array of koalabear variables, one conversion of
\* it or one assignment offered to the gadget.
InitKoalaBear ==
    /\ InitPipeline
    /\ cmd = "unknown" /\ witness = "ok" /\ faults = {}
    /\ pkFile = Empty /\ vkFile = Empty /\ solFile = Empty
    /\ p = [zero |-> 0, internal_linear_layer |-> ZeroState]
    /\ state \in KoalaStates
    /\ orig = state
    /\ api = <<>>
    /\ last = "none"
    /\ res = <<>>
    /\ gadget = NoGadget
    /\ NoRangeCheck

NextKoalaBear ==
    \/ Call_ConvertKoalaBear
    \/ Prover_ReduceSlow

SpecKoalaBear == InitKoalaBear /\ [][NextKoalaBear]_vars

\* The range-check chip alone: one trace_and_map, then lookups.
InitRangeCheck ==
    /\ InitPipeline
    /\ cmd = "unknown" /\ witness = "ok" /\ faults = {}
    /\ pkFile = Empty /\ vkFile = Empty /\ solFile = Empty
    /\ NoChip
    /\ trace = ZeroTrace /\ events = {}
    /\ rcPc = "u8" /\ rcI = 0
    /\ mults = ZeroMults /\ lookups = 0

NextRangeCheck ==
    \/ TraceAndMap_U8
    \/ TraceAndMap_U12
    \/ TraceAndMap_U16
    \/ GenerateMain_Lookup

SpecRangeCheck == InitRangeCheck /\ [][NextRangeCheck]_vars

----------------------------------------------------------------------------
(* Vocabulary of the properties.                                           *)

\* The function the log belongs to: the running one, or the last that returned.
CurOp == IF op = "idle" THEN lastOp ELSE op
Returned(o) == op = "idle" /\ lastOp = o
InLog(e) == \E i \in DOMAIN log : log[i] = e
Ran(st) == \E i \in DOMAIN log : log[i].st = st
\* Some entry equal to e stands before position i of the log.
Before(e, i) == \E j \in DOMAIN log : j < i /\ log[j] = e
\* A task of the current invocation is still running.
TaskAlive == \E t \in tasks : Current(t)

----------------------------------------------------------------------------
(* Claims C1 - C4                                                          *)

\* C1: in Prove, groth16.Prove is invoked only when the VerifyingKey load,
\* the ProvingKey-load task and the compile task have all completed with
\* success, and groth16.Verify only after the VerifyingKey load; no task is
\* running when Prove reads Pk and Ccs.
C1_ProveOnlyAfterJoin ==
    /\ (op = "Prove" /\ pc = "prove") =>
          /\ InLog(Ev("readVk", "ok")) /\ IsKey(Vk)
          /\ InLog(Ev("readPk", "ok")) /\ IsKey(Pk)
          /\ InLog(Ev("compile", "ok")) /\ Ccs = "ccs"
          /\ ~reafProveKeyErr /\ ~compileCcsErr
          /\ tasks = {}
    /\ (op = "Prove" /\ pc = "verify") =>
          /\ InLog(Ev("readVk", "ok")) /\ IsKey(Vk)
          /\ tasks = {}
    /\ (CurOp = "Prove" /\ Ran("prove")) =>
          \A i \in DOMAIN log : log[i].st = "prove" =>
              /\ Before(Ev("readVk", "ok"), i)
              /\ Before(Ev("readPk", "ok"), i)
              /\ Before(Ev("compile", "ok"), i)

\* groth16.Prove has run in Prove and gave a proof.
C1_Witness == op = "Prove" /\ pc = "verify" /\ IsKey(pf)

C3_ProofWrittenOnlyAfterVerify ==
    /\ [](CurOp = "Prove" =>
            /\ \A i \in DOMAIN log : log[i].st = "writeProof" =>
                  Before(Ev("verify", "ok"), i) /\ Before(Ev("export", "ok"), i)
            /\ InLog(Ev("verify", "fail")) =>
                  Returned("Prove") /\ lastRet = "verify" /\ ~Ran("writeProof"))
    /\ [][proofFile' # proofFile =>
            /\ op = "Prove" /\ pc = "writeProof"
            /\ VerifyOk(pf, Vk, pubWitness)
            /\ InLog(Ev("verify", "ok")) /\ InLog(Ev("export", "ok"))]_vars

\* Prove has written the proof it verified.
C3_Witness == Returned("Prove") /\ lastRet = "ok" /\ IsKey(proofFile) /\ proofFile = Vk

\* C4: when the solve check rejects, DoSolve, Setup and Prove return an
\* error, and no compilation, groth16.Setup, groth16.Prove, key-file write
\* or proof-file write is executed in that invocation.
C4_SolveRejectIsHardStop ==
    /\ [](InLog(Ev("solve", "fail")) =>
            op = "idle" /\ lastOp \in {"DoSolve", "Setup", "Prove"} /\ lastRet = "solve")
    /\ []((witness = "unsat" /\ CurOp \in {"DoSolve", "Setup", "Prove"}) =>
            /\ ~Ran("compile") /\ ~Ran("setup") /\ ~Ran("prove")
            /\ ~Ran("writePk") /\ ~Ran("writeVk") /\ ~Ran("writeProof")
            /\ op = "idle" => lastRet # "ok")
    /\ [][(witness = "unsat" /\ op # "idle") =>
            /\ pkFile' = pkFile /\ vkFile' = vkFile /\ proofFile' = proofFile
            /\ Ccs' = Ccs]_vars

\* The solve check of Prove has rejected.
C4_Witness == Returned("Prove") /\ InLog(Ev("solve", "fail"))

----------------------------------------------------------------------------
(* Claims C5 - C10                                                         *)

\* Stages that read, generate or write key material.
KeyStages == {"readVk", "readPk", "setup", "writePk", "writeVk"}
Solvable == witness \notin {"missing", "malformed", "unsat"}

\* C5 as stated: in Setup and in Prove no ProvingKey or VerifyingKey is read,
\* generated or written before the solve check of the invocation has passed.
C5_SolveBeforeAnyKey ==
    CurOp \in {"Setup", "Prove"} =>
        \A i \in DOMAIN log : log[i].st \in KeyStages => Before(Ev("solve", "ok"), i)

\* C5 amended: in Setup the solve check passes before any key is generated
\* or written; in Prove the VerifyingKey is read and the ProvingKey load is
\* started before the solve check, and only the compile, groth16.Prove,
\* groth16.Verify and the write of the proof follow a passed solve check.
C5_SolveBeforeKeysInSetup ==
    /\ [](CurOp = "Setup" =>
            \A i \in DOMAIN log : log[i].st \in KeyStages \cup {"compile", "prove", "verify"} =>
                Before(Ev("solve", "ok"), i) /\ Solvable)
    /\ [](CurOp = "Prove" =>
            /\ \A i \in DOMAIN log :
                  log[i].st \in {"compile", "prove", "verify", "export", "writeProof"} =>
                      Before(Ev("solve", "ok"), i) /\ Solvable
            /\ \A i \in DOMAIN log : log[i].st = "solve" =>
                  Before(Ev("readPk", "start"), i) /\ Before(Ev("readVk", "ok"), i))
    /\ [][(op = "Setup" /\ (Vk' # Vk \/ pkFile' # pkFile \/ vkFile' # vkFile)) =>
            InLog(Ev("solve", "ok")) /\ Solvable]_vars

\* Prove has passed its solve check, with the VerifyingKey already loaded.
C5_Witness == op = "Prove" /\ pc = "witness" /\ IsKey(Vk) /\ InLog(Ev("solve", "ok"))

\* C6 as stated: in Prove the ProvingKey-load task, the witness read, the
\* solve check and the compile task all start only after the VerifyingKey
\* load has succeeded.
C6_VerifyingKeyLoadedFirst ==
    CurOp = "Prove" =>
        \A i \in DOMAIN log :
            log[i].st \in {"readPk", "readInput", "parse", "solve", "compile"} =>
                Before(Ev("readVk", "ok"), i)

\* C7 as stated: whenever Prove has returned, with success or any error,
\* every task it started has finished.
C7_NoTaskOutlivesProve == Returned("Prove") => ~TaskAlive

\* The order of Setup's stages.
SetupOrder == <<"readInput", "parse", "solve", "witness", "compile", "setup", "prove",
                "verify", "writePk", "writeVk">>

\* C8: Setup runs Solve, Compile, groth16.Setup, the self-check Prove, the
\* self-check Verify, the write of the ProvingKey and the write of the
\* VerifyingKey in this order; the key files are written only after the
\* self-check Verify accepted on the fresh key pair, and a failed self-check
\* leaves both files unwritten.
C8_SetupOrderAndSelfCheck ==
    /\ [](CurOp = "Setup" =>
            /\ Len(log) <= Len(SetupOrder)
            /\ \A i \in DOMAIN log :
                  log[i].st = SetupOrder[i] /\ (i < Len(log) => log[i].ev = "ok")
            /\ ~InLog(Ev("verify", "ok")) => ~Ran("writePk") /\ ~Ran("writeVk"))
    /\ [][(op = "Setup" /\ (pkFile' # pkFile \/ vkFile' # vkFile)) =>
            /\ pc \in {"writePk", "writeVk"}
            /\ Vk = FreshPair(calls)
            /\ VerifyOk(pf, Vk, pubWitness)]_vars

\* Setup has written the ProvingKey after its self-check and is about to
\* write the VerifyingKey.
C8_Witness == op = "Setup" /\ pc = "writeVk" /\ pkFile = Vk /\ InLog(Ev("verify", "ok"))

\* Entries of the log that start a stage: every stage of the main thread,
\* and the go statements of Prove's two tasks (the tasks' completions are not).
IsStart(i) ==
    \/ log[i].ev = "start"
    \/ ~(CurOp = "Prove" /\ log[i].st \in {"readPk", "compile"})
FirstFail == CHOOSE i \in DOMAIN log :
                log[i].ev = "fail" /\ \A j \in DOMAIN log : j < i => log[j].ev # "fail"

\* C9 as stated: in Setup and in Prove, once any stage has failed no further
\* stage is started, and the error returned is that of the first stage that
\* failed.
C9_AbortOnFirstFailure ==
    (CurOp \in {"Setup", "Prove"} /\ \E i \in DOMAIN log : log[i].ev = "fail") =>
        /\ \A j \in DOMAIN log : j > FirstFail => ~IsStart(j)
        /\ op = "idle" => lastRet = log[FirstFail].st

\* C9 amended: Setup aborts at its first failed stage and returns its error.
\* In Prove the main thread aborts at its first failed stage and returns its
\* error; a failure of the ProvingKey-load task stops nothing, it is reported
\* after the join only, and after the compile task's failure if both failed.
C9_AbortOnFirstMainFailure ==
    /\ CurOp = "Setup" =>
          /\ \A i \in DOMAIN log : log[i].ev = "fail" =>
                i = Len(log) /\ op = "idle" /\ lastRet = log[i].st
          /\ (op = "idle" /\ lastRet = "ok") => \A i \in DOMAIN log : log[i].ev = "ok"
    /\ CurOp = "Prove" =>
          /\ \A i \in DOMAIN log : (log[i].ev = "fail" /\ IsStart(i)) =>
                /\ op = "idle" /\ lastRet = log[i].st
                /\ \A j \in DOMAIN log : j > i => ~IsStart(j)
          /\ (op = "idle" /\ ~\E i \in DOMAIN log : log[i].ev = "fail" /\ IsStart(i)) =>
                lastRet = IF InLog(Ev("compile", "fail")) THEN "compile"
                          ELSE IF InLog(Ev("readPk", "fail")) THEN "readPk"
                          ELSE "ok"

\* Both tasks of Prove failed and Prove returned the compile error.
C9_Witness ==
    /\ Returned("Prove") /\ lastRet = "compile"
    /\ InLog(Ev("readPk", "fail")) /\ InLog(Ev("compile", "fail"))

\* C10: Setup returns success only if both key files were written
\* completely, Prove only if the proof file was; no run that ends in success
\* leaves a missing or torn key or proof file.
C10_SuccessMeansWritten ==
    /\ (Returned("Setup") /\ lastRet = "ok") =>
          /\ InLog(Ev("writePk", "ok")) /\ InLog(Ev("writeVk", "ok"))
          /\ pkFile \notin {Empty, Torn, Truncated}
          /\ vkFile = Vk /\ IsKey(vkFile)
    /\ (Returned("Prove") /\ lastRet = "ok") =>
          /\ InLog(Ev("writeProof", "ok"))
          /\ proofFile = pf /\ IsKey(proofFile)

\* Setup has returned success with both files holding the fresh pair.
C10_Witness ==
    /\ Returned("Setup") /\ lastRet = "ok"
    /\ pkFile = FreshPair(calls) /\ vkFile = FreshPair(calls)

----------------------------------------------------------------------------
(* C11: the lifecycle of the globals Pk, Vk and Ccs.                       *)

Globals == {"Pk", "Vk", "Ccs"}

\* C11 as stated: under every command of the dispatcher each of Pk, Vk and
\* Ccs is written at most once in the life of the process.
C11_WrittenOnce == cmd # "lib" => \A g \in Globals : writes[g] <= 1

\* C11, amended: each of Pk, Vk and Ccs is written at most once by each call
\* of a function of the package, so that a command of a single call (prove,
\* solve, exportSolidity) writes each at most once and solve writes none;
\* setup writes Pk and Ccs at most once and Vk at most twice (Setup, then
\* the reload in ExportSolidify); setupAndProve writes Pk and Ccs at most
\* twice and Vk at most three times.  DoSolve and ExportSolidify never write
\* Pk or Ccs.
C11_WrittenOncePerCall ==
    /\ \A g \in Globals : writes[g] <= calls
    /\ cmd \in {"prove", "exportSolidity", "unknown"} => \A g \in Globals : writes[g] <= 1
    /\ cmd = "solve" => \A g \in Globals : writes[g] = 0
    /\ cmd = "setup" => writes.Pk <= 1 /\ writes.Ccs <= 1 /\ writes.Vk <= 2
    /\ cmd = "setupAndProve" => writes.Pk <= 2 /\ writes.Ccs <= 2 /\ writes.Vk <= 3
    /\ (cmd # "lib" /\ CurOp \in {"DoSolve", "ExportSolidify"} /\ calls = 1) =>
          writes.Pk = 0 /\ writes.Ccs = 0

\* setupAndProve has written Vk three times and Pk and Ccs twice.
C11_Witness ==
    /\ cmd = "setupAndProve" /\ Returned("Prove")
    /\ writes.Vk = 3 /\ writes.Pk = 2 /\ writes.Ccs = 2

----------------------------------------------------------------------------
(* C12: no retries.                                                        *)

\* C12: in one invocation every stage is started at most once and completes
\* (with success or with failure) at most once, so that no stage runs twice
\* and a failed stage is not run again.
C12_NoStageRetried ==
    \A i, j \in DOMAIN log :
        (log[i].st = log[j].st /\ (log[i].ev = "start") = (log[j].ev = "start")) => i = j

\* Prove has returned the failure of groth16.Prove after both tasks were
\* joined: twelve stages ran, the failed one among them.
C12_Witness ==
    /\ Returned("Prove") /\ lastRet = "prove"
    /\ InLog(Ev("prove", "fail")) /\ InLog(Ev("readPk", "ok")) /\ InLog(Ev("compile", "ok"))

----------------------------------------------------------------------------
(* C13: the number of forked tasks.                                        *)

\* C13: at most two forked tasks exist at any time, and when Prove has just
\* forked its first task no task of an earlier invocation is alive.
C13_AtMostTwoTasks ==
    /\ Cardinality(tasks) <= 2
    /\ (op = "Prove" /\ pc = "readVk") => \A t \in tasks : Current(t)

----------------------------------------------------------------------------
(* C14: the result of Prove does not depend on the schedule.               *)

\* What Prove returns on the inputs of the process, read off its code: the
\* stages of the main thread in program order, the two checks after the
\* join (compile first), then the stages that follow.
ExpectedProve ==
    IF ~ReadKeyOk(vkFile) THEN "readVk"
    ELSE IF witness = "missing" THEN "readInput"
    ELSE IF witness = "malformed" THEN "parse"
    ELSE IF witness = "unsat" THEN "solve"
    ELSE IF witness = "badwitness" THEN "witness"
    ELSE IF ~CompileOk THEN "compile"
    ELSE IF ~ReadKeyOk(pkFile) THEN "readPk"
    ELSE IF "prove" \in faults THEN "prove"
    ELSE IF pkFile # vkFile THEN "verify"
    ELSE IF "export" \in faults THEN "export"
    ELSE IF ~WriteOk("writeProof") THEN "writeProof"
    ELSE "ok"

\* C14: whatever the interleaving of the main thread with the two tasks, a
\* Prove that returns returns the result its inputs and stage outcomes
\* determine, and it has written the proof file exactly when that result is
\* success.
C14_ResultIndependentOfSchedule ==
    Returned("Prove") =>
        /\ lastRet = ExpectedProve
        /\ InLog(Ev("writeProof", "ok")) <=> ExpectedProve = "ok"
        /\ Ran("writeProof") <=> ExpectedProve \in {"ok", "writeProof"}
        /\ ExpectedProve = "ok" => proofFile = pkFile

\* The proving-key load was delayed until after the compile task had
\* finished, failed last of all, and Prove has returned its error.
C14_Witness ==
    /\ Returned("Prove") /\ lastRet = "readPk"
    /\ InLog(Ev("compile", "ok"))
    /\ log[Len(log)] = Ev("readPk", "fail")

----------------------------------------------------------------------------
(* C16: the witnesses handed to groth16.Prove, groth16.Verify and the      *)
(* exporter.                                                               *)

\* C16: whenever Setup or Prove has called groth16.Prove, the witness it
\* handed over is the full witness of the input, whose public part is the
\* verification-key hash followed by the digest of the committed values;
\* whenever it has called groth16.Verify or the exporter, the witness handed
\* over is the public part of that same full witness, in the same order.
C16_PublicWitnessOfProvedWitness ==
    /\ Ran("prove") =>
          /\ passed.prove = fullWitness
          /\ Public(passed.prove).vec =
                <<WitnessInput.VkeyHash, WitnessInput.CommittedValuesDigest>>
    /\ Ran("verify") => passed.verify = Public(passed.prove)
    /\ (CurOp = "Prove" /\ Ran("export")) => passed.export = Public(passed.prove)
    /\ (CurOp = "Prove" /\ Ran("export")) => passed.export = passed.verify

\* Prove has called the exporter on the witness it verified.
C16_Witness ==
    /\ CurOp = "Prove" /\ InLog(Ev("export", "ok"))
    /\ passed.export.vec = <<WitnessInput.VkeyHash, WitnessInput.CommittedValuesDigest>>
    /\ passed.prove.vec[3] = WitnessInput.Secret

----------------------------------------------------------------------------
(* C17 - C20: the linear layers of the Poseidon2 chip.                     *)

\* The sum of the first n elements of the array s, in the integers.
RECURSIVE Sigma(_, _)
Sigma(s, n) == IF n = 0 THEN 0 ELSE Sigma(s, n - 1) + s[n - 1]

VecAdd(s, t) == [i \in Idx |-> (s[i] + t[i]) % FieldP]
Count(a, m) == Cardinality({k \in DOMAIN a : a[k] = m})

\* The 3x3 circulant matrix with diagonal 2 and off-diagonal 1.
Circulant(i, j) == IF i = j THEN 2 ELSE 1

\* C17: after diffusionPermuteMut on a chip whose zero is 0, every state[i]
\* is s[i] * internal_linear_layer[i] + (s[0] + ... + s[t-1]) in the field,
\* s the array before the call.
C17_DiffusionIsDiagonalPlusSum ==
    (last = "diffusion" /\ p.zero = 0) =>
        \A i \in Idx :
            state[i] = (orig[i] * p.internal_linear_layer[i] + Sigma(orig, width)) % FieldP

\* A call on an array of sum 1 whose later elements were updated: an element
\* past the first is not zero and has a coefficient other than 0 and 1.
C17_Witness ==
    /\ last = "diffusion" /\ state # orig
    /\ Sigma(orig, width) % FieldP = 1
    /\ \E i \in Idx : i > 0 /\ orig[i] # 0 /\ p.internal_linear_layer[i] > 1

\* C18: after matrixPermuteMut each of state[0], state[1], state[2] is its
\* value before the call plus the sum of the three values before the call,
\* which is the circulant matrix applied to the three original slots.
C18_MatrixIsCirculant ==
    last = "matrix" =>
        \A i \in 0 .. 2 :
            /\ state[i] = (orig[i] + orig[0] + orig[1] + orig[2]) % FieldP
            /\ state[i] = (Circulant(i, 0) * orig[0] + Circulant(i, 1) * orig[1]
                           + Circulant(i, 2) * orig[2]) % FieldP

\* A call on values not all the same whose sum is not zero in the field.
C18_Witness ==
    /\ last = "matrix" /\ state # orig
    /\ orig[0] # orig[1] /\ orig[2] # 0
    /\ (orig[0] + orig[1] + orig[2]) % FieldP # 0

\* C19: the diffusion permutation is linear: the result of a call on s,
\* added component-wise to the result on any s2, is the result on s + s2;
\* and the all-zero array is mapped to itself.
C19_DiffusionIsLinear ==
    last = "diffusion" =>
        /\ \A s2 \in States :
              VecAdd(state, diffusionPermuteMut(p, s2).state)
                  = diffusionPermuteMut(p, VecAdd(orig, s2)).state
        /\ orig = ZeroState => state = ZeroState

\* A call on a non-zero array with a non-zero result.
C19_Witness ==
    /\ last = "diffusion" /\ orig # ZeroState /\ state # ZeroState
    /\ \E i \in Idx : p.internal_linear_layer[i] > 1

\* C20 as stated: one call of diffusionPermuteMut makes exactly width
\* additions and width multiplications on the API.
C20_WidthAdditions ==
    last = "diffusion" => Count(api, "Add") = width /\ Count(api, "Mul") = width

\* C20, amended: one call of diffusionPermuteMut makes exactly 2 * width
\* additions (width for the sum, width for the updates) and width
\* multiplications, and calls nothing else on the API.
C20_TwiceWidthAdditions ==
    last = "diffusion" =>
        /\ Count(api, "Add") = 2 * width
        /\ Count(api, "Mul") = width
        /\ Len(api) = 3 * width
        /\ \A k \in DOMAIN api : api[k] \in {"Add", "Mul"}

\* A call has made its additions and multiplications.
C20_Witness == last = "diffusion" /\ Count(api, "Mul") = width /\ Count(api, "Add") > width

----------------------------------------------------------------------------
(* C21, C22: the embedding of koalabear values.                            *)

\* C21: ConvertKoalaBear returns, at each of the 16 positions, the canonical
\* representative of the element at that position of its argument: a value
\* below the inner modulus congruent to the element; the argument is as it
\* was before the call.
C21_ConvertReducesEveryElement ==
    last = "convert" =>
        /\ DOMAIN res = 0 .. (StateLen - 1)
        /\ \A i \in 0 .. (StateLen - 1) :
              /\ res[i] \in 0 .. (KoalaP - 1)
              /\ res[i] % KoalaP = orig[i].Value % KoalaP
        /\ state = orig

\* An array with an element that is not canonical has been converted, and
\* its elements do not all reduce to the same value.
C21_Witness ==
    /\ last = "convert"
    /\ \E i \in 0 .. (StateLen - 1) : orig[i].Value >= KoalaP /\ res[i] # orig[i].Value
    /\ \E i, j \in 0 .. (StateLen - 1) : res[i] # res[j]

\* C22: the gadget accepts no output but the canonical representative of its
\* input: an output congruent to the input and different from the
\* representative, or not congruent at all, satisfies no assignment.
C22_OnlyCanonicalAccepted ==
    (last = "gadget" /\ gadget.ok) =>
        /\ gadget.y = gadget.x % KoalaP
        /\ gadget.y < KoalaP

\* The gadget has accepted the representative of a value that is not canonical.
C22_Witness == last = "gadget" /\ gadget.ok /\ gadget.x >= KoalaP /\ gadget.q > 0

----------------------------------------------------------------------------
(* C24: what the exports do to the keys.                                   *)

\* A step of the main thread inside ExportSolidify, or inside the export and
\* the write of the proof in Prove.
ExportStep ==
    /\ op = "ExportSolidify" \/ (op = "Prove" /\ pc \in {"export", "writeProof"})
    /\ pc' # pc \/ op' # op

\* C24 as stated: no step of ExportSolidify and no step of the proof export
\* in Prove changes Pk, Vk or Ccs.
C24_ExportsLeaveKeys == [][ExportStep => UNCHANGED <<Pk, Vk, Ccs>>]_vars

\* C24, amended: the steps of ExportSolidify and of the proof export in
\* Prove leave Pk and Ccs unchanged, and Vk changes in one step only: the
\* load at the start of ExportSolidify, which replaces Vk by the key of the
\* file at VK_PATH.
C24_ExportsWriteOnlyTheLoadedVk ==
    [][ExportStep =>
          /\ Pk' = Pk /\ Ccs' = Ccs
          /\ Vk' # Vk => /\ op = "ExportSolidify" /\ pc = "readVk"
                         /\ IsKey(vkFile) /\ Vk' = vkFile]_vars

\* exportSolidity has loaded a key into the empty Vk and exported it.
C24_Witness ==
    /\ cmd = "exportSolidity" /\ Returned("ExportSolidify") /\ lastRet = "ok"
    /\ IsKey(Vk) /\ Vk = vkFile /\ solFile = Vk

----------------------------------------------------------------------------
(* C25, C26: the WaitGroup across invocations.                             *)

\* C25: under a fair scheduler every invocation of Prove returns.
C25_ProveReturns == (op = "Prove") ~> (op = "idle")

\* C26: when no function of the package is running and no task is alive,
\* the counter of loadLock is 0.
C26_LoadLockBalanced == (op = "idle" /\ tasks = {}) => loadLock = 0

----------------------------------------------------------------------------
(* C27: races on the global proving key.                                   *)

\* The tasks that are in the middle of writing Pk.
PkWriters == {t \in tasks : t.kind = "pk" /\ t.phase = "writing"}

\* The main thread is at a statement that writes or reads Pk.
MainWritesPk == op = "Setup" /\ pc = "setup"
MainReadsPk == (op = "Setup" /\ pc \in {"prove", "writePk"}) \/ (op = "Prove" /\ pc = "prove")

\* C27: Pk never has two writers at a time, and is never written by a task
\* while the main thread is at a statement that writes or reads it.
C27_NoRaceOnPk ==
    /\ Cardinality(PkWriters) <= 1
    /\ PkWriters # {} => ~MainWritesPk /\ ~MainReadsPk

----------------------------------------------------------------------------
(* C28, C29: what a failed Setup leaves behind.                            *)

\* C28: when Setup has returned an error, Pk, Vk and Ccs are as they were
\* when it was called.
C28_FailedSetupLeavesGlobals ==
    (Returned("Setup") /\ lastRet # "ok") =>
        Pk = atCall.Pk /\ Vk = atCall.Vk /\ Ccs = atCall.Ccs

\* The two files hold the keys of one pair.
OnePair(pk, vk) == IsKey(pk) /\ IsKey(vk) /\ pk = vk

\* C29: if the key files held the keys of one pair when Setup was called,
\* they hold the keys of one pair when it has returned, with success or
\* with an error.
C29_KeyFilesStayOnePair ==
    (Returned("Setup") /\ OnePair(atCall.pkFile, atCall.vkFile)) => OnePair(pkFile, vkFile)

----------------------------------------------------------------------------
(* C30: the dispatcher after a failure.                                    *)

\* C30: under setup and setupAndProve a function runs only if the function
\* called before it returned success (so Prove only if both Setup and
\* ExportSolidify did), and an unknown command calls nothing.
C30_DispatchAbortsOnFirstFailure ==
    /\ (cmd \in {"setup", "setupAndProve"} /\ op = "ExportSolidify") =>
          lastOp = "Setup" /\ lastRet = "ok"
    /\ (cmd = "setupAndProve" /\ op = "Prove") =>
          lastOp = "ExportSolidify" /\ lastRet = "ok"
    /\ cmd = "unknown" => calls = 0 /\ op = "idle"

----------------------------------------------------------------------------
(* C31: what the dispatcher reports.                                       *)

\* The failure message that names function o.
FailureMessage(o) ==
    CASE o = "Prove" -> "fail to prove"
      [] o = "Setup" -> "fail to setup"
      [] o = "DoSolve" -> "fail to solve"
      [] o = "ExportSolidify" -> "fail to export solidity"

\* C31: under every command of the dispatcher, the return of a function
\* prints the failure message naming it if the function returned an error,
\* and prints nothing if it succeeded.
C31_FailureReportedIffFailed ==
    [][(cmd # "lib" /\ op # "idle" /\ op' = "idle") =>
          out' = IF lastRet' # "ok" THEN Append(out, FailureMessage(op)) ELSE out]_vars

----------------------------------------------------------------------------
(* C32: the two circuit instances of an invocation.                        *)

\* Stage st of the current invocation has run to its end.
Ended(st) == \E i \in DOMAIN log : log[i].st = st /\ log[i].ev # "start"

\* The instances built so far are distinct instances of one parsed input.
BuiltFromOneInput ==
    \A i, j \in DOMAIN instances :
        /\ instances[i].input = instances[j].input
        /\ i # j => instances[i] # instances[j]

\* Compile was handed nothing but the second instance built (the template),
\* NewWitness nothing but the first (the assignment).
RolesKept ==
    /\ passed.compile # NoCircuit =>
          Len(instances) = 2 /\ passed.compile = instances[2] /\ passed.compile # instances[1]
    /\ passed.newWitness # NoCircuit =>
          Len(instances) = 2 /\ passed.newWitness = instances[1]
              /\ passed.newWitness # instances[2]
    /\ Ended("compile") => passed.compile # NoCircuit
    /\ Ended("witness") => passed.newWitness # NoCircuit

\* C32: every invocation of DoSolve, Setup and Prove has built exactly two
\* circuit instances of one parsed input when it returns, has compiled only
\* the template and has generated the witness only from the assignment.
C32_TwoInstancesInEveryInvocation ==
    /\ (op = "idle" /\ lastOp \in {"DoSolve", "Setup", "Prove"}) => Len(instances) = 2
    /\ BuiltFromOneInput
    /\ RolesKept

\* C32 (amended): an invocation of DoSolve, Setup and Prove builds two
\* circuit instances, both of its one parsed input, when it comes to its
\* solve check and none before (none at all when it returns earlier); it
\* compiles only the template and generates the witness only from the
\* assignment.
C32_TwoInstancesOnceParsed ==
    /\ Len(instances) = IF Ran("solve") THEN 2 ELSE 0
    /\ (op = "idle" /\ InLog(Ev("parse", "ok"))) => Len(instances) = 2
    /\ BuiltFromOneInput
    /\ RolesKept

\* Prove has compiled the template and proved the witness of the assignment.
C32_Witness ==
    /\ Returned("Prove") /\ lastRet = "ok"
    /\ passed.compile = instances[2] /\ passed.newWitness = instances[1]
    /\ InLog(Ev("compile", "ok")) /\ InLog(Ev("witness", "ok"))

----------------------------------------------------------------------------
(* C33: the error Prove returns after the join.                            *)

\* Position of entry e in the log of the current invocation (0: not there).
At(e) == IF InLog(e) THEN CHOOSE i \in DOMAIN log : log[i] = e ELSE 0

\* C33: a Prove that has run both tasks and returned has returned the
\* compile failure when both tasks failed, and the failure of the one task
\* that failed when the other succeeded, in whatever order the two tasks
\* finished.
C33_CompileFailureFirst ==
    Returned("Prove") =>
        /\ (InLog(Ev("compile", "fail")) /\ InLog(Ev("readPk", "fail"))) => lastRet = "compile"
        /\ (InLog(Ev("compile", "fail")) /\ InLog(Ev("readPk", "ok"))) => lastRet = "compile"
        /\ (InLog(Ev("compile", "ok")) /\ InLog(Ev("readPk", "fail"))) => lastRet = "readPk"

\* Both tasks have failed, the load of the proving key first, and Prove has
\* returned the compile failure.
C33_Witness ==
    /\ Returned("Prove") /\ lastRet = "compile"
    /\ 0 < At(Ev("readPk", "fail")) /\ At(Ev("readPk", "fail")) < At(Ev("compile", "fail"))

----------------------------------------------------------------------------
(* C34: ExportSolidify and the contract file.                              *)

\* C34: the file at SOLIDITY_PATH changes only in an ExportSolidify whose
\* load of the VerifyingKey has succeeded; an ExportSolidify that returns
\* the failure of that load leaves the file as it was when it was called,
\* and one that returns success has created the file and exported the
\* contract of the loaded key into it.
C34_ContractFileOnlyAfterLoad ==
    /\ [][solFile' # solFile =>
            op = "ExportSolidify" /\ InLog(Ev("readVk", "ok"))]_vars
    /\ []((Returned("ExportSolidify") /\ lastRet = "readVk") => solFile = atCall.solFile)
    /\ []((Returned("ExportSolidify") /\ lastRet = "ok") =>
            /\ InLog(Ev("createSol", "ok")) /\ InLog(Ev("exportSol", "ok"))
            /\ Before(Ev("readVk", "ok"), At(Ev("createSol", "ok")))
            /\ Before(Ev("createSol", "ok"), At(Ev("exportSol", "ok")))
            /\ IsKey(solFile) /\ solFile = Vk)

\* The load of the VerifyingKey has failed and the contract that was at
\* SOLIDITY_PATH before is still there.
C34_Witness ==
    /\ Returned("ExportSolidify") /\ lastRet = "readVk"
    /\ IsKey(atCall.solFile) /\ solFile = atCall.solFile

----------------------------------------------------------------------------
(* C35: what the two linear layers leave alone.                            *)

\* The array s of a chip one element wider, x its last element.
Extended(s, x) == [i \in 0 .. width |-> IF i < width THEN s[i] ELSE x]

\* C35: neither function changes the chip's zero or internal_linear_layer;
\* after matrixPermuteMut every element at an index of 3 or above is what it
\* was before the call, in the chip's array and in the array of a chip one
\* element wider, whose first elements the call changes in the same way.
C35_MatrixTouchesFirstThree ==
    /\ [][p' = p]_vars
    /\ [](last = "matrix" => \A i \in Idx : i >= 3 => state[i] = orig[i])
    /\ [](last = "matrix" =>
            \A x \in Field :
                LET r == matrixPermuteMut(p, Extended(orig, x)).state IN
                    /\ \A i \in 3 .. width : r[i] = Extended(orig, x)[i]
                    /\ \A i \in 0 .. 2 : r[i] = state[i])

\* matrixPermuteMut has changed each of the first three elements, on a chip
\* whose coefficients are not all the same.
C35_Witness ==
    /\ last = "matrix"
    /\ \A i \in 0 .. 2 : state[i] # orig[i]
    /\ p.internal_linear_layer[0] # p.internal_linear_layer[1]

----------------------------------------------------------------------------
(* C36: the event map and the preprocessed trace of the range-check chip.  *)

\* The trace has a row of opcode o for every value up to top.
HasRows(o, top) ==
    \A v \in 0 .. top : \E r \in Rows : trace[r] = [opcode |-> o, value |-> v]

\* C36: when trace_and_map has returned, every event of its map is mapped to
\* the column of its own opcode and to a row of the trace that holds its
\* opcode and value; and the trace has a U8 row for every value up to
\* u8::MAX, a U12 row for every value below 1 << 12 and a U16 row for every
\* value up to u16::MAX.
C36_EventMapMatchesTrace ==
    rcPc = "done" =>
        /\ \A e \in events :
              /\ e.index = e.event.opcode
              /\ trace[e.row] = [opcode |-> e.event.opcode, value |-> e.event.value]
        /\ HasRows(U8, U8Max)
        /\ HasRows(U12, U16Start - 1)
        /\ HasRows(U16, U16Max)

====
